---- MODULE Spec2Model ----
(***************************************************************************)
(* State-machine model of the control and safety-supervision core:         *)
(*   - SafetyMonitor, check_safety, dynamic_safety_check  (src/Safety.py)  *)
(*   - PIDController                               (src/PIDcontroller.py)  *)
(*   - PhidgetsForceSensor: current_force and its lock   (src/Phidgets.py)  *)
(*   - dynamic_force_control                                 (src/Main.py)  *)
(*   - _phase_loop                                       (src/Biologic.py)  *)
(*                                                                         *)
(* Units of the safety monitor.  Voltages are counted in half volts and    *)
(* forces in tens of newtons, timestamps in seconds, so that the default   *)
(* thresholds of SafetyMonitor.__init__ are the integers                   *)
(*   max_voltage = 5.0 V = 10, max_force = 100.0 N = 10,                   *)
(*   max_voltage_rate = 0.5 V/s = 1, max_force_rate = 10.0 N/s = 1.        *)
(* Real-valued quantities of the PID controller are exact rationals        *)
(* <<numerator, denominator>> in lowest terms with a positive denominator. *)
(* Floating-point rounding is not modelled.                                *)
(***************************************************************************)
EXTENDS Integers, Sequences, FiniteSets, TLC

VARIABLES
    \* SafetyMonitor fields
    history,               \* deque of <<voltage, force, timestamp>>
    consecutive_warnings,
    is_safe,
    \* observations of the SafetyMonitor.check calls made so far
    sm_last,               \* the last call: whether one was made, its sample,
                           \* what it returned or that it raised, its
                           \* basic_safe and dynamic_safe, whether it came to
                           \* call dynamic_safety_check on more than five
                           \* samples, and sm_run as it was before it
    sm_run,                \* how many of the most recent calls in a row passed
                           \* the absolute check and failed the rate check
    sm_seen,               \* whether some call failed the absolute check, and
                           \* whether sm_run ever reached max_consecutive_warnings
    sm_fails,              \* how many rate-check failures in a row the most
                           \* recent calls that passed the absolute check made
    history_length,        \* maxlen of the history deque, set by __init__
    sm_config              \* the window size and the consecutive-violation
                           \* limit the monitor's user asked for;
                           \* SafetyMonitor.__init__ has a parameter for
                           \* neither and no method reads them

VARIABLES
    \* PIDController fields (rationals; output_limits is <<>> for None, else
    \* <<lo, hi>>; max_history is never assigned after __init__)
    kp, ki, kd, setpoint, dt, output_limits,
    integral, prev_error, last_output,
    error_history, output_history,
    \* observations of the PIDController calls made so far
    pid_last,              \* the last call: the operation, the measured value
                           \* passed to update, whether update raised, what it
                           \* returned, and its local output before the limits
    pid_calls              \* numbers of update calls and of set_tunings and
                           \* set_setpoint calls since construction

VARIABLES
    \* PhidgetsForceSensor with its two threads: the fields _lock (who holds
    \* it) and current_force; where the SDK thread is in
    \* on_voltage_ratio_change (cb_pc) and the ratio it was passed; where
    \* the control thread is in get_force (rd_pc) and the value it read;
    \* the forces that callbacks which have returned wrote (written)
    sensor,
    \* One call of Main.dynamic_force_control: where it is (pc), its local
    \* force, the number of loop iterations made, the last value passed to
    \* linmot.set_force and the one before it, and whether the last one was
    \* passed inside the loop
    force_control,
    \* One call of Biologic._phase_loop: where it is (pc), its arguments
    \* phase and vcut, the status and the samples not yet processed of the
    \* last get_experiment_samples, the number of such calls, the voltages
    \* of the rows written to the file, and the number of stop_channel calls
    phase_loop

sm_vars == <<history, consecutive_warnings, is_safe, sm_last, sm_run, sm_seen,
             sm_fails, history_length, sm_config>>

pid_vars == <<kp, ki, kd, setpoint, dt, output_limits, integral, prev_error,
              last_output, error_history, output_history, pid_last, pid_calls>>

io_vars == <<sensor, force_control, phase_loop>>

vars == <<history, consecutive_warnings, is_safe, sm_last, sm_run, sm_seen,
          sm_fails, history_length, sm_config,
          kp, ki, kd, setpoint, dt, output_limits, integral, prev_error,
          last_output, error_history, output_history, pid_last, pid_calls,
          sensor, force_control, phase_loop>>

(***************************************************************************)
(* Bounds of the model                                                     *)
(***************************************************************************)
\* history_length handed to SafetyMonitor.__init__ (the deque's maxlen).
HistoryLength == 6
\* update calls made on one PIDController
MaxUpdates == 4
\* set_tunings and set_setpoint calls made on one PIDController
MaxConfigCalls == 1
\* update calls made on one PIDController in a long run, more than max_history
MaxLongUpdates == 102
\* iterations of the loop of dynamic_force_control
MaxTicks == 6
\* get_experiment_samples calls of one _phase_loop, and samples in one answer
MaxPolls == 3
MaxBatch == 2

(***************************************************************************)
(* Generic helpers                                                         *)
(***************************************************************************)
abs(x) == IF x < 0 THEN -x ELSE x

Last(s) == s[Len(s)]

(***************************************************************************)
(* SafetyMonitor configuration (SafetyMonitor.__init__ defaults, scaled)   *)
(***************************************************************************)
max_voltage == 10
max_force == 10
max_voltage_rate == 1
max_force_rate == 1
max_consecutive_warnings == 3
\* default window_size of dynamic_safety_check; check does not pass one
window_size == 5
\* the literal 5 of "if len(self.history) > 5" in SafetyMonitor.check
MinHistory == 5

\* The samples a caller may pass to check: <<voltage, force, timestamp>>.
\* They cover: an in-range sample at an earlier time; one second later a
\* step of voltage and force exactly at the rate limits, voltage and force
\* exactly at the absolute limit (a rate violation against the zero sample),
\* and voltage (negative) and force beyond the absolute limit.  Timestamps
\* may repeat and decrease.
Samples ==
    { <<0, 0, 0>>, <<1, 1, 1>>, <<10, 0, 1>>,
      <<0, 10, 1>>, <<-11, 0, 1>>, <<0, 11, 1>> }

(***************************************************************************)
(* src/Safety.py: check_safety                                             *)
(***************************************************************************)
check_safety_ge(voltage, force, maxv, maxf) ==
    IF abs(voltage) >= maxv THEN FALSE
    ELSE IF abs(force) >= maxf THEN FALSE
    ELSE TRUE

check_safety(voltage, force, maxv, maxf) ==
    IF abs(voltage) > maxv THEN FALSE
    ELSE IF abs(force) > maxf THEN FALSE
    ELSE TRUE

(***************************************************************************)
(* src/Safety.py: dynamic_safety_check.  hist is list(self.history), whose *)
(* last element is the current sample.  Python's history[-k] is            *)
(* hist[Len(hist) - k + 1].  The function hands back "True" or "False", or *)
(* "ZeroDivisionError" when a division by a zero dt is evaluated.          *)
(***************************************************************************)
\* abs(now - past) / dt > limit over the reals, for dt # 0 (dt is written
\* dtime here and below)
RateExceeds_ge(now, past, dtime, limit) ==
    IF dtime > 0 THEN abs(now - past) >= limit * dtime
    ELSE abs(now - past) <= limit * dtime

RateExceeds(now, past, dtime, limit) ==
    IF dtime > 0 THEN abs(now - past) > limit * dtime
    ELSE abs(now - past) < limit * dtime

\* "if dt > 0:  # Avoid division by zero"
dt_guard_ge(dtime) == dtime >= 0

dt_guard(dtime) == dtime > 0

dynamic_safety_check(voltage, force, hist, maxv, maxf, maxvr, maxfr, wsize) ==
    IF ~check_safety(voltage, force, maxv, maxf) THEN "False"
    ELSE IF Len(hist) > wsize THEN
        LET time_now  == hist[Len(hist)][3]
            past      == hist[Len(hist) - wsize + 1]
            time_past == past[3]
            dtime     == time_now - time_past
        IN  IF dt_guard(dtime) THEN
                IF dtime = 0 THEN "ZeroDivisionError"
                ELSE IF RateExceeds(voltage, past[1], dtime, maxvr) THEN "False"
                ELSE IF RateExceeds(force, past[2], dtime, maxfr) THEN "False"
                ELSE "True"
            ELSE "True"
    ELSE "True"

(***************************************************************************)
(* src/Safety.py: SafetyMonitor                                            *)
(***************************************************************************)
\* deque(maxlen=history_length).append
add_sample_keep_oldest(hist, sample, maxlen) ==
    IF Len(hist) >= maxlen THEN hist ELSE Append(hist, sample)

add_sample(hist, sample, maxlen) ==
    IF maxlen = 0 THEN hist
    ELSE IF Len(hist) >= maxlen THEN Append(Tail(hist), sample)
    ELSE Append(hist, sample)

\* "if len(self.history) > 5"
enough_history(hist) == Len(hist) > MinHistory

\* "Perform dynamic safety check if we have enough history"
dynamic_safe_window_3(hist, voltage, force) ==
    IF Len(hist) > 3
    THEN dynamic_safety_check(voltage, force, hist, max_voltage, max_force,
                              max_voltage_rate, max_force_rate, 3)
    ELSE "True"

dynamic_safe(hist, voltage, force) ==
    IF enough_history(hist)
    THEN dynamic_safety_check(voltage, force, hist, max_voltage, max_force,
                              max_voltage_rate, max_force_rate, window_size)
    ELSE "True"

\* "Update consecutive warnings counter"
update_warnings_keep(cw, dyn) == IF ~dyn THEN cw + 1 ELSE cw

update_warnings_set_one(cw, dyn) == IF ~dyn THEN 1 ELSE 0

update_warnings(cw, dyn) == IF ~dyn THEN cw + 1 ELSE 0

\* "System is unsafe if too many consecutive warnings"
latch_warnings_recomputed(safe, cw) == cw < max_consecutive_warnings

latch_warnings_off(safe, cw) == safe

latch_warnings_gt(safe, cw) ==
    IF cw > max_consecutive_warnings THEN FALSE ELSE safe

latch_warnings(safe, cw) ==
    IF cw >= max_consecutive_warnings THEN FALSE ELSE safe

\* "if not basic_safe: self.is_safe = False"
trip_absolute(safe) == FALSE

\* consecutive_warnings after a call that failed the absolute check: the
\* call returns before the counter is touched
trip_warnings_reset(cw) == 0

trip_warnings(cw) == cw

\* SafetyMonitor.check as a function of the monitor's fields and arguments:
\* the fields after the call, the value returned (ret) or that the call
\* raised, the values of its locals basic_safe and dynamic_safe
\* (dynamic_safe is TRUE when the call did not come to assign it), and
\* whether it called dynamic_safety_check (rate_checked).
SM_check(hist, maxlen, cw, safe, voltage, force, timestamp) ==
    LET h1         == add_sample(hist, <<voltage, force, timestamp>>, maxlen)
        basic_safe == check_safety(voltage, force, max_voltage, max_force)
    IN  IF ~basic_safe
        THEN [history |-> h1, consecutive_warnings |-> trip_warnings(cw),
              is_safe |-> trip_absolute(safe), ret |-> trip_absolute(safe),
              raised |-> FALSE, basic_safe |-> FALSE, dynamic_safe |-> TRUE,
              rate_checked |-> FALSE]
        ELSE LET dyn == dynamic_safe(h1, voltage, force)
             IN  IF dyn = "ZeroDivisionError"
                 THEN [history |-> h1, consecutive_warnings |-> cw,
                       is_safe |-> safe, ret |-> FALSE,
                       raised |-> TRUE, basic_safe |-> TRUE, dynamic_safe |-> TRUE,
                       rate_checked |-> enough_history(h1)]
                 ELSE LET cw1 == update_warnings(cw, dyn = "True")
                          s1  == latch_warnings(safe, cw1)
                      IN  [history |-> h1, consecutive_warnings |-> cw1,
                           is_safe |-> s1, ret |-> s1, raised |-> FALSE,
                           basic_safe |-> TRUE, dynamic_safe |-> (dyn = "True"),
                           rate_checked |-> enough_history(h1)]

Min(a, b) == IF a < b THEN a ELSE b

\* The window size and limit the code works with
DefaultConfig ==
    [window_size |-> window_size,
     max_consecutive_warnings |-> max_consecutive_warnings]

\* Window sizes and limits a user may ask for
Configs ==
    { DefaultConfig, [window_size |-> 3, max_consecutive_warnings |-> 2] }

\* SafetyMonitor.__init__ with history_length = maxlen, by a user who asked
\* for configuration cfg
SafetyConstructed(cfg, maxlen) ==
    /\ history = <<>>
    /\ history_length = maxlen
    /\ consecutive_warnings = 0
    /\ is_safe = TRUE
    /\ sm_last = [called |-> FALSE, sample |-> <<0, 0, 0>>,
                  ret |-> TRUE, raised |-> FALSE,
                  basic_safe |-> TRUE, dynamic_safe |-> TRUE,
                  rate_checked |-> FALSE, run_before |-> 0]
    /\ sm_run = 0
    /\ sm_seen = [abs_trip |-> FALSE, run_limit |-> FALSE]
    /\ sm_fails = 0
    /\ sm_config = cfg

\* SafetyMonitor.__init__
SafetyInit == SafetyConstructed(DefaultConfig, HistoryLength)

\* One call of SafetyMonitor.check(voltage, force, timestamp)
check ==
    \E s \in Samples :
      \E r \in {SM_check(history, history_length, consecutive_warnings,
                         is_safe, s[1], s[2], s[3])} :
        LET run == IF r.basic_safe /\ ~r.dynamic_safe
                   THEN Min(sm_run + 1, max_consecutive_warnings)
                   ELSE 0
        IN  /\ history' = r.history
            /\ consecutive_warnings' = r.consecutive_warnings
            /\ is_safe' = r.is_safe
            /\ sm_last' = [called |-> TRUE, sample |-> s,
                           ret |-> r.ret, raised |-> r.raised,
                           basic_safe |-> r.basic_safe,
                           dynamic_safe |-> r.dynamic_safe,
                           rate_checked |-> r.rate_checked,
                           run_before |-> sm_run]
            /\ sm_run' = run
            /\ sm_fails' = IF ~r.basic_safe THEN sm_fails
                           ELSE IF ~r.dynamic_safe THEN sm_fails + 1
                           ELSE 0
            /\ history_length' = history_length
            /\ sm_config' = sm_config
            /\ sm_seen' = [abs_trip  |-> sm_seen.abs_trip \/ ~r.basic_safe,
                           run_limit |-> sm_seen.run_limit
                                         \/ run >= max_consecutive_warnings]
            /\ UNCHANGED <<pid_vars, io_vars>>

(***************************************************************************)
(* Exact rational arithmetic: <<n, d>> with d > 0 and gcd(|n|, d) = 1      *)
(***************************************************************************)
RECURSIVE GCD(_, _)
GCD(a, b) == IF b = 0 THEN a ELSE GCD(b, a % b)

RNorm(n, d) ==
    LET g == GCD(abs(n), abs(d))
        sgn == IF d < 0 THEN -1 ELSE 1
    IN  <<(sgn * n) \div g, (sgn * d) \div g>>

Rat(n, d) == RNorm(n, d)
RInt(n) == <<n, 1>>
RZero == <<0, 1>>
RAdd(a, b) == RNorm(a[1] * b[2] + b[1] * a[2], a[2] * b[2])
RSub(a, b) == RNorm(a[1] * b[2] - b[1] * a[2], a[2] * b[2])
RMul(a, b) == RNorm(a[1] * b[1], a[2] * b[2])
\* a / b for b # 0
RDiv(a, b) == RNorm(a[1] * b[2], a[2] * b[1])
RLt(a, b) == a[1] * b[2] < b[1] * a[2]
RLe(a, b) == a[1] * b[2] <= b[1] * a[2]
RAbs(a) == <<abs(a[1]), a[2]>>
\* Python's max(a, b) and min(a, b) of two numbers
RMax(a, b) == IF RLt(a, b) THEN b ELSE a
RMin(a, b) == IF RLt(b, a) THEN b ELSE a

RECURSIVE RSum(_)
RSum(seq) == IF seq = <<>> THEN RZero ELSE RAdd(seq[1], RSum(Tail(seq)))

(***************************************************************************)
(* src/PIDcontroller.py: PIDController                                     *)
(***************************************************************************)
\* self.max_history
max_history == 100

\* None, as an argument of set_tunings and as output_limits
None == <<>>

\* The controller's fields as one record
pid ==
    [kp |-> kp, ki |-> ki, kd |-> kd, setpoint |-> setpoint, dt |-> dt,
     output_limits |-> output_limits, integral |-> integral,
     prev_error |-> prev_error, last_output |-> last_output,
     error_history |-> error_history, output_history |-> output_history]

\* PIDController.__init__(kp, ki, kd, setpoint, dt, output_limits)
PID_init(a_kp, a_ki, a_kd, a_setpoint, a_dt, a_limits) ==
    [kp |-> a_kp, ki |-> a_ki, kd |-> a_kd, setpoint |-> a_setpoint, dt |-> a_dt,
     output_limits |-> a_limits, integral |-> RZero,
     prev_error |-> RZero, last_output |-> RZero,
     error_history |-> <<>>, output_history |-> <<>>]

\* history.append(x); if len(history) > self.max_history: history.pop(0)
history_append_keep_oldest(hist, x) ==
    IF Len(hist) >= max_history THEN hist ELSE Append(hist, x)

history_append(hist, x) ==
    LET h1 == Append(hist, x)
    IN  IF Len(h1) > max_history THEN Tail(h1) ELSE h1

\* error = self.setpoint - measured_value
pid_error_reversed(sp, measured_value) == RSub(measured_value, sp)

pid_error(sp, measured_value) == RSub(sp, measured_value)

\* self.integral += error * self.dt
accumulate_no_dt(integ, error, step) == RAdd(integ, error)

accumulate(integ, error, step) == RAdd(integ, RMul(error, step))

\* max(self.output_limits[0], min(output, self.output_limits[1]))
clamp_upper_only(output, limits) == RMin(output, limits[2])

clamp(output, limits) == RMax(limits[1], RMin(output, limits[2]))

\* d_term = self.kd * (error - self.prev_error) / self.dt, for dt # 0
derivative_no_dt(gain_d, error, prev, step) == RMul(gain_d, RSub(error, prev))

derivative(gain_d, error, prev, step) ==
    RDiv(RMul(gain_d, RSub(error, prev)), step)

\* self.integral -= (output - output_limited) * self.dt / self.ki
\*                  if self.ki != 0 else 0
anti_windup_none(integ, output, limited, step, gain_i) == integ

anti_windup_added(integ, output, limited, step, gain_i) ==
    IF gain_i /= RZero
    THEN RAdd(integ, RDiv(RMul(RSub(output, limited), step), gain_i))
    ELSE integ

anti_windup(integ, output, limited, step, gain_i) ==
    IF gain_i /= RZero
    THEN RSub(integ, RDiv(RMul(RSub(output, limited), step), gain_i))
    ELSE RSub(integ, RZero)

\* PIDController.update as a function of the controller's fields c and the
\* argument: the fields after the call (obj), whether it raised
\* ZeroDivisionError at the division by self.dt, the value returned (ret)
\* and the local output before the limits are applied (raw).
PID_update(c, measured_value) ==
    LET error     == pid_error(c.setpoint, measured_value)
        eh        == history_append(c.error_history, error)
        p_term    == RMul(c.kp, error)
        integral1 == accumulate(c.integral, error, c.dt)
        i_term    == RMul(c.ki, integral1)
    IN  IF c.dt = RZero
        THEN [obj |-> [c EXCEPT !.error_history = eh, !.integral = integral1],
              raised |-> TRUE, ret |-> RZero, raw |-> RZero]
        ELSE
        LET d_term  == derivative(c.kd, error, c.prev_error, c.dt)
            output  == RAdd(RAdd(p_term, i_term), d_term)
            limited == IF c.output_limits /= None
                       THEN clamp(output, c.output_limits)
                       ELSE output
            integral2 == IF c.output_limits /= None /\ output /= limited
                         THEN anti_windup(integral1, output, limited, c.dt, c.ki)
                         ELSE integral1
        IN  [obj |-> [c EXCEPT !.error_history = eh,
                               !.integral = integral2,
                               !.prev_error = error,
                               !.last_output = limited,
                               !.output_history =
                                   history_append(c.output_history, limited)],
             raised |-> FALSE, ret |-> limited, raw |-> output]

\* PIDController.reset
PID_reset_keeps_prev_error(c) ==
    [c EXCEPT !.integral = RZero,
              !.error_history = <<>>, !.output_history = <<>>]

PID_reset_keeps_output_history(c) ==
    [c EXCEPT !.integral = RZero, !.prev_error = RZero,
              !.error_history = <<>>]

PID_reset(c) ==
    [c EXCEPT !.integral = RZero, !.prev_error = RZero,
              !.error_history = <<>>, !.output_history = <<>>]

\* PIDController.set_tunings(kp=None, ki=None, kd=None): "if kp is not None"
PID_set_tunings_and_reset(c, a_kp, a_ki, a_kd) ==
    [c EXCEPT !.kp = IF a_kp /= None THEN a_kp ELSE @,
              !.ki = IF a_ki /= None THEN a_ki ELSE @,
              !.kd = IF a_kd /= None THEN a_kd ELSE @,
              !.prev_error = RZero]

PID_set_tunings_if_truthy(c, a_kp, a_ki, a_kd) ==
    [c EXCEPT !.kp = IF a_kp /= None /\ a_kp /= RZero THEN a_kp ELSE @,
              !.ki = IF a_ki /= None /\ a_ki /= RZero THEN a_ki ELSE @,
              !.kd = IF a_kd /= None /\ a_kd /= RZero THEN a_kd ELSE @]

PID_set_tunings(c, a_kp, a_ki, a_kd) ==
    [c EXCEPT !.kp = IF a_kp /= None THEN a_kp ELSE @,
              !.ki = IF a_ki /= None THEN a_ki ELSE @,
              !.kd = IF a_kd /= None THEN a_kd ELSE @]

\* PIDController.set_setpoint(setpoint)
PID_set_setpoint_and_reset(c, a_setpoint) ==
    [c EXCEPT !.setpoint = a_setpoint,
              !.integral = RZero, !.prev_error = RZero]

PID_set_setpoint(c, a_setpoint) == [c EXCEPT !.setpoint = a_setpoint]

\* The fields after a call are those of record c.
PidBecomes(c) ==
    /\ kp' = c.kp /\ ki' = c.ki /\ kd' = c.kd
    /\ setpoint' = c.setpoint /\ dt' = c.dt
    /\ output_limits' = c.output_limits
    /\ integral' = c.integral /\ prev_error' = c.prev_error
    /\ last_output' = c.last_output
    /\ error_history' = c.error_history
    /\ output_history' = c.output_history

\* Arguments the callers pass.  The time steps are positive ones, the
\* documented domain of dt ("Time step (seconds)").
Gains == { <<RInt(1), RInt(0), RInt(0)>>, <<RInt(0), RInt(1), RInt(0)>>,
           <<RInt(1), RInt(1), RInt(1)>> }
Setpoints == { RInt(0), RInt(1) }
TimeSteps == { Rat(1, 2), RInt(1) }
Limits == { None, <<RInt(-1), RInt(1)>> }
Measured == { RInt(-2), RInt(1) }
TuningArgs == { None, RInt(0), RInt(1) }

\* The last call made on the controller: its name, the argument of update
\* (arg), the arguments of set_tunings (tunings), and what update did.
NoCall == [op |-> "init", arg |-> RZero, tunings |-> <<None, None, None>>,
           raised |-> FALSE, ret |-> RZero, raw |-> RZero]

\* The fields are those of record c.
PidIs(c) ==
    /\ kp = c.kp /\ ki = c.ki /\ kd = c.kd
    /\ setpoint = c.setpoint /\ dt = c.dt
    /\ output_limits = c.output_limits
    /\ integral = c.integral /\ prev_error = c.prev_error
    /\ last_output = c.last_output
    /\ error_history = c.error_history
    /\ output_history = c.output_history

\* A newly constructed PIDController
PIDInit ==
    /\ \E g \in Gains, d \in TimeSteps, l \in Limits :
           PidIs(PID_init(g[1], g[2], g[3], RInt(0), d, l))
    /\ pid_last = NoCall
    /\ pid_calls = [update |-> 0, config |-> 0]

\* PIDController() with the default arguments, never called
PIDIdle ==
    /\ PidIs(PID_init(RInt(1), Rat(1, 10), Rat(1, 100), RInt(0), Rat(1, 10), None))
    /\ pid_last = NoCall
    /\ pid_calls = [update |-> 0, config |-> 0]

\* One call of PIDController.update(measured_value)
update ==
    /\ pid_calls.update < MaxUpdates
    /\ \E x \in Measured :
         \E r \in {PID_update(pid, x)} :
            /\ PidBecomes(r.obj)
            /\ pid_last' = [NoCall EXCEPT !.op = "update", !.arg = x,
                                           !.raised = r.raised,
                                           !.ret = r.ret, !.raw = r.raw]
    /\ pid_calls' = [pid_calls EXCEPT !.update = @ + 1]
    /\ UNCHANGED <<sm_vars, io_vars>>

\* One call of PIDController.reset()
reset ==
    /\ PidBecomes(PID_reset(pid))
    /\ pid_last' = [NoCall EXCEPT !.op = "reset"]
    /\ UNCHANGED <<pid_calls, sm_vars, io_vars>>

\* One call of PIDController.set_tunings(kp, ki, kd)
set_tunings ==
    /\ pid_calls.config < MaxConfigCalls
    /\ \E a \in TuningArgs, b \in TuningArgs, c \in TuningArgs :
          /\ PidBecomes(PID_set_tunings(pid, a, b, c))
          /\ pid_last' = [NoCall EXCEPT !.op = "set_tunings",
                                        !.tunings = <<a, b, c>>]
    /\ pid_calls' = [pid_calls EXCEPT !.config = @ + 1]
    /\ UNCHANGED <<sm_vars, io_vars>>

\* One call of PIDController.set_setpoint(setpoint)
set_setpoint ==
    /\ pid_calls.config < MaxConfigCalls
    /\ \E v \in Setpoints : PidBecomes(PID_set_setpoint(pid, v))
    /\ pid_last' = [NoCall EXCEPT !.op = "set_setpoint"]
    /\ pid_calls' = [pid_calls EXCEPT !.config = @ + 1]
    /\ UNCHANGED <<sm_vars, io_vars>>

PIDNext == update \/ reset \/ set_tunings \/ set_setpoint

(***************************************************************************)
(* src/Phidgets.py: PhidgetsForceSensor.  The vendor SDK's thread calls    *)
(* on_voltage_ratio_change, the control thread calls get_force; both run   *)
(* their one statement inside "with self._lock".  Forces and ratios are    *)
(* integers here.                                                          *)
(***************************************************************************)
\* __init__ defaults calibration_gain=1.0, calibration_offset=0.0
calibration_gain == 1
calibration_offset == 0

\* the ratios the SDK reports
Ratios == { 1, 2, 3 }

\* (ratio - self.calibration_offset) * self.calibration_gain
force_of(ratio) == (ratio - calibration_offset) * calibration_gain

\* Lock.acquire goes ahead when nobody holds the lock
lock_free_always(holder) == TRUE

lock_free(holder) == holder = "none"

\* PhidgetsForceSensor.__init__: current_force = 0.0, a new Lock, no call
\* under way
SensorInit ==
    sensor = [lock |-> "none", current_force |-> 0,
              cb_pc |-> "idle", cb_ratio |-> 0,
              rd_pc |-> "idle", rd_ret |-> 0, rd_calls |-> 0,
              written |-> {}]

\* on_voltage_ratio_change(ch, ratio): "with self._lock:" entered
cb_acquire ==
    /\ sensor.cb_pc = "idle" /\ lock_free(sensor.lock)
    /\ \E ratio \in Ratios :
          sensor' = [sensor EXCEPT !.lock = "callback", !.cb_pc = "locked",
                                   !.cb_ratio = ratio]
    /\ UNCHANGED <<sm_vars, pid_vars, force_control, phase_loop>>

\* self.current_force = (ratio - offset) * gain
cb_store ==
    /\ sensor.cb_pc = "locked"
    /\ sensor' = [sensor EXCEPT !.current_force = force_of(sensor.cb_ratio),
                                !.cb_pc = "stored"]
    /\ UNCHANGED <<sm_vars, pid_vars, force_control, phase_loop>>

\* the with block is left: the lock is released and the callback returns
cb_release ==
    /\ sensor.cb_pc = "stored"
    /\ sensor' = [sensor EXCEPT !.lock = "none", !.cb_pc = "idle",
                                !.written = @ \cup {force_of(sensor.cb_ratio)}]
    /\ UNCHANGED <<sm_vars, pid_vars, force_control, phase_loop>>

\* get_force(): "with self._lock:" entered
get_force_acquire ==
    /\ sensor.rd_pc = "idle" /\ lock_free(sensor.lock)
    /\ sensor' = [sensor EXCEPT !.lock = "control", !.rd_pc = "locked"]
    /\ UNCHANGED <<sm_vars, pid_vars, force_control, phase_loop>>

\* self.current_force is read as the value to return
get_force_read ==
    /\ sensor.rd_pc = "locked"
    /\ sensor' = [sensor EXCEPT !.rd_ret = sensor.current_force,
                                !.rd_pc = "read"]
    /\ UNCHANGED <<sm_vars, pid_vars, force_control, phase_loop>>

\* the with block is left: the lock is released and get_force returns
get_force_release ==
    /\ sensor.rd_pc = "read"
    /\ sensor' = [sensor EXCEPT !.lock = "none", !.rd_pc = "idle",
                                !.rd_calls = 1]
    /\ UNCHANGED <<sm_vars, pid_vars, force_control, phase_loop>>

SensorNext ==
    \/ cb_acquire \/ cb_store \/ cb_release
    \/ get_force_acquire \/ get_force_read \/ get_force_release

(***************************************************************************)
(* src/Main.py: dynamic_force_control.  Forces are counted in half         *)
(* newtons, so that the step 0.5 N is 1 and the ceiling 100 N is 200.      *)
(***************************************************************************)
\* "force - 0.5", "force + 0.5"
ForceStep == 1
\* "max(0, ...)"
ForceFloor == 0
\* "min(100, ...)"
ForceCeiling == 200

\* Values the operator may enter at "Initial force (N): ": -1, 0, 0.5,
\* 99.5, 100 and 101 N
InitialForces == { -2, 0, 1, 199, 200, 202 }

Max(a, b) == IF a > b THEN a ELSE b

\* the force of one loop iteration: "if voltage > voltage_limit * 0.9"
adjust_force(force, voltage_high) ==
    IF voltage_high THEN Max(ForceFloor, force - ForceStep)
    ELSE Min(ForceCeiling, force + ForceStep)

\* dynamic_force_control has not been called
ForceControlInit ==
    force_control = [pc |-> "idle", force |-> 0, ticks |-> 0,
                     commanded |-> 0, previous |-> 0, in_loop |-> FALSE]

\* The inputs are read, the technique is started and the initial force is
\* commanded: "linmot.set_force(force)" before the loop
dfc_start ==
    /\ force_control.pc = "idle"
    /\ \E f \in InitialForces :
          force_control' = [force_control EXCEPT !.pc = "loop", !.force = f,
                                                 !.commanded = f]
    /\ UNCHANGED <<sm_vars, pid_vars, sensor, phase_loop>>

\* One iteration of "while time.time() - start < duration"
dfc_tick ==
    /\ force_control.pc = "loop" /\ force_control.ticks < MaxTicks
    /\ \E voltage_high \in BOOLEAN :
         \E f \in {adjust_force(force_control.force, voltage_high)} :
          force_control' = [force_control EXCEPT !.force = f,
                                                 !.ticks = @ + 1,
                                                 !.previous = force_control.commanded,
                                                 !.commanded = f,
                                                 !.in_loop = TRUE]
    /\ UNCHANGED <<sm_vars, pid_vars, sensor, phase_loop>>

\* The duration is over: bio.stop_channel, linmot.stop_force (set_force(0.0))
dfc_finish ==
    /\ force_control.pc = "loop"
    /\ force_control' = [force_control EXCEPT !.pc = "done",
                                              !.previous = force_control.commanded,
                                              !.commanded = 0,
                                              !.in_loop = FALSE]
    /\ UNCHANGED <<sm_vars, pid_vars, sensor, phase_loop>>

ForceControlNext == dfc_start \/ dfc_tick \/ dfc_finish

(***************************************************************************)
(* src/Biologic.py: _phase_loop(bio, channel, phase, vcut, f, cyc_idx).    *)
(* Voltages are integers.                                                  *)
(***************************************************************************)
\* run_cp_cycle: the charge phase is cut at cutoff_voltage, the discharge
\* phase at lower_cut = cutoff_voltage - 1.0
cutoff_voltage == 4
lower_cut == cutoff_voltage - 1

\* s.get("Ewe", 0.0) of the samples the instrument hands over
Voltages == { 2, 3, 4, 5 }

\* what one get_experiment_samples call may hand over
Batches == UNION { [1..n -> Voltages] : n \in 0..MaxBatch }

\* "phase == 'Charge' and v >= vcut", "phase == 'Discharge' and v <= vcut"
reaches_cutoff_strict(phase, v, cut) ==
    \/ phase = "Charge" /\ v > cut
    \/ phase = "Discharge" /\ v < cut

reaches_cutoff(phase, v, cut) ==
    \/ phase = "Charge" /\ v >= cut
    \/ phase = "Discharge" /\ v <= cut

\* _phase_loop is entered for phase ph with cutoff cut
PhaseLoopEntered(ph, cut) ==
    phase_loop = [pc |-> "poll", phase |-> ph, vcut |-> cut,
                  status |-> "RUN", samples |-> <<>>, polls |-> 0,
                  written |-> <<>>, stops |-> 0]

\* the two calls run_cp_cycle makes
PhaseLoopInit ==
    \/ PhaseLoopEntered("Charge", cutoff_voltage)
    \/ PhaseLoopEntered("Discharge", lower_cut)

PhaseLoopIdle == PhaseLoopEntered("Charge", cutoff_voltage)

\* "status, _, samples = bio.get_experiment_samples(channel)"
pl_poll ==
    /\ phase_loop.pc = "poll" /\ phase_loop.polls < MaxPolls
    /\ \E st \in {"RUN", "STOP"}, b \in Batches :
          phase_loop' = [phase_loop EXCEPT !.pc = "for", !.status = st,
                                           !.samples = b, !.polls = @ + 1]
    /\ UNCHANGED <<sm_vars, pid_vars, sensor, force_control>>

\* One iteration of "for s in samples": the row is written, and on a
\* sample at the cutoff the channel is stopped and the function returns
pl_sample ==
    /\ phase_loop.pc = "for" /\ phase_loop.samples /= <<>>
    /\ LET v == Head(phase_loop.samples)
       IN  phase_loop' =
             IF reaches_cutoff(phase_loop.phase, v, phase_loop.vcut)
             THEN [phase_loop EXCEPT !.written = Append(@, v),
                                     !.samples = Tail(@),
                                     !.stops = @ + 1, !.pc = "returned"]
             ELSE [phase_loop EXCEPT !.written = Append(@, v),
                                     !.samples = Tail(@)]
    /\ UNCHANGED <<sm_vars, pid_vars, sensor, force_control>>

\* After the for loop: "if status == 'STOP': return", else time.sleep(0.25)
pl_batch_end ==
    /\ phase_loop.pc = "for" /\ phase_loop.samples = <<>>
    /\ phase_loop' = [phase_loop EXCEPT
                         !.pc = IF phase_loop.status = "STOP"
                                THEN "returned" ELSE "poll"]
    /\ UNCHANGED <<sm_vars, pid_vars, sensor, force_control>>

PhaseLoopNext == pl_poll \/ pl_sample \/ pl_batch_end

\* The components that take no step in a specification of another one
IoIdle == SensorInit /\ ForceControlInit /\ PhaseLoopIdle

\* A PIDController driven by its four operations, beside a monitor that is
\* never called.
PIDSpecInit == PIDInit /\ SafetyInit /\ IoIdle

PIDSpec == PIDSpecInit /\ [][PIDNext]_vars

\* Every time step __init__ accepts: it stores dt as given, zero and
\* negative values included.
AnyTimeSteps == { RInt(-1), RInt(0), RInt(1) }

\* A newly constructed PIDController, whatever dt was passed
PIDAnyDtInit ==
    /\ \E g \in Gains, d \in AnyTimeSteps, l \in Limits :
           PidIs(PID_init(g[1], g[2], g[3], RInt(0), d, l))
    /\ pid_last = NoCall
    /\ pid_calls = [update |-> 0, config |-> 0]

PIDAnyDtSpecInit == PIDAnyDtInit /\ SafetyInit /\ IoIdle

\* A PIDController constructed with any dt and driven by its operations.
PIDAnyDtSpec == PIDAnyDtSpecInit /\ [][PIDNext]_vars

\* The measured value of a long run
SteadyMeasured == { RInt(1) }

\* One call of PIDController.update(measured_value) in a long run
update_steady ==
    /\ pid_calls.update < MaxLongUpdates
    /\ \E x \in SteadyMeasured :
         \E r \in {PID_update(pid, x)} :
            /\ PidBecomes(r.obj)
            /\ pid_last' = [NoCall EXCEPT !.op = "update", !.arg = x,
                                           !.raised = r.raised,
                                           !.ret = r.ret, !.raw = r.raw]
    /\ pid_calls' = [pid_calls EXCEPT !.update = @ + 1]
    /\ UNCHANGED <<sm_vars, io_vars>>

\* PIDController(kp=1, ki=1, kd=1, setpoint=0, dt=1), never called
PIDLongInit ==
    /\ PidIs(PID_init(RInt(1), RInt(1), RInt(1), RInt(0), RInt(1), None))
    /\ pid_last = NoCall
    /\ pid_calls = [update |-> 0, config |-> 0]

PIDLongSpecInit == PIDLongInit /\ SafetyInit /\ IoIdle

PIDLongNext == update_steady \/ reset

\* A PIDController updated more often than its histories have room.
PIDLongSpec == PIDLongSpecInit /\ [][PIDLongNext]_vars

Init == SafetyInit /\ PIDInit /\ IoIdle

Next ==
    \/ check \/ update \/ reset \/ set_tunings \/ set_setpoint
    \/ SensorNext \/ ForceControlNext \/ PhaseLoopNext

Spec == Init /\ [][Next]_vars

SafetyNext == check

\* A SafetyMonitor driven by check calls, beside an idle PIDController().
SafetySpecInit == SafetyInit /\ PIDIdle /\ IoIdle

SafetySpec == SafetySpecInit /\ [][SafetyNext]_vars

\* A PhidgetsForceSensor with its callback thread and its control thread,
\* beside an idle monitor and an idle controller.
SensorSpecInit ==
    SensorInit /\ SafetyInit /\ PIDIdle /\ ForceControlInit /\ PhaseLoopIdle

SensorSpec == SensorSpecInit /\ [][SensorNext]_vars

\* One call of dynamic_force_control, beside idle components.
ForceControlSpecInit ==
    ForceControlInit /\ SafetyInit /\ PIDIdle /\ SensorInit /\ PhaseLoopIdle

ForceControlSpec == ForceControlSpecInit /\ [][ForceControlNext]_vars

\* One call of _phase_loop, beside idle components.
PhaseLoopSpecInit ==
    PhaseLoopInit /\ SafetyInit /\ PIDIdle /\ SensorInit /\ ForceControlInit

PhaseLoopSpec == PhaseLoopSpecInit /\ [][PhaseLoopNext]_vars

\* A SafetyMonitor whose user asked for some window size and limit.
SafetyConfigSpecInit ==
    /\ \E cfg \in Configs : SafetyConstructed(cfg, HistoryLength)
    /\ PIDIdle /\ IoIdle

SafetyConfigSpec == SafetyConfigSpecInit /\ [][SafetyNext]_vars

\* History lengths too short for the rate check ever to have enough samples
ShortHistoryLengths == 0..MinHistory

\* A SafetyMonitor constructed with history_length <= 5.
SafetyShortSpecInit ==
    /\ \E n \in ShortHistoryLengths : SafetyConstructed(DefaultConfig, n)
    /\ PIDIdle /\ IoIdle

SafetyShortSpec == SafetyShortSpecInit /\ [][SafetyNext]_vars

(***************************************************************************)
(* Properties of SafetyMonitor                                             *)
(***************************************************************************)
\* The sample of the last check call, and whether it lies within the
\* absolute limits (strictly: a magnitude equal to its limit is within).
LastSample == Last(history)

WithinAbsolute(sample) ==
    abs(sample[1]) <= max_voltage /\ abs(sample[2]) <= max_force

\* After a call that held more than five samples: the time between the
\* sample the rate check reads as its reference, history[-5], and the
\* current one.
RateCheckDt(hist) == hist[Len(hist)][3] - hist[Len(hist) - 4][3]

\* C1: once a check call has returned False or is_safe is False, is_safe
\* stays False and every later check call returns False, whatever the sample.
C1_LatchIsOneWay ==
    [][ (~is_safe \/ (sm_last.called /\ ~sm_last.ret))
            => (~is_safe' /\ sm_last'.called /\ ~sm_last'.raised /\ ~sm_last'.ret)
      ]_vars

\* A call whose sample passed both checks, on a latched monitor, returned False.
C1_Witness ==
    /\ sm_last.called /\ sm_last.basic_safe /\ sm_last.dynamic_safe
    /\ consecutive_warnings = 0
    /\ ~is_safe /\ ~sm_last.ret

\* C2: a check call whose sample has |voltage| > max_voltage or
\* |force| > max_force returns False and leaves is_safe False, on the first
\* call as on any other; a sample whose magnitudes are at most the limits
\* passes the absolute check, so that such a first call returns True.
C2_AbsoluteTrip ==
    sm_last.called =>
        /\ ~WithinAbsolute(LastSample)
              => (~is_safe /\ ~sm_last.ret /\ ~sm_last.basic_safe)
        /\ WithinAbsolute(LastSample) => sm_last.basic_safe
        /\ (WithinAbsolute(LastSample) /\ Len(history) = 1)
              => (is_safe /\ sm_last.ret)

\* The very first call, with a force beyond the limit, returned False.
C2_Witness ==
    /\ Len(history) = 1 /\ abs(LastSample[2]) > max_force
    /\ ~is_safe /\ sm_last.called /\ ~sm_last.ret

\* C3: when max_consecutive_warnings calls in a row have each passed the
\* absolute check and failed the rate check, the last of them leaves is_safe
\* False and returns False, and so does every call after it.
C3_WarningLimitLatches ==
    /\ sm_run >= max_consecutive_warnings => (~is_safe /\ ~sm_last.ret)
    /\ sm_seen.run_limit => (~is_safe /\ ~sm_last.ret)

\* Latched by the warnings alone, and a later compliant call returned False.
C3_Witness ==
    /\ sm_seen.run_limit /\ ~sm_seen.abs_trip
    /\ sm_run = 0 /\ sm_last.basic_safe /\ sm_last.dynamic_safe
    /\ ~is_safe /\ ~sm_last.ret

\* C4: while no sample has failed the absolute check and no
\* max_consecutive_warnings calls in a row have failed the rate check, every
\* check call returns True; a compliant sample after fewer than
\* max_consecutive_warnings rate violations leaves consecutive_warnings 0
\* and is_safe True.
C4_NoNuisanceTrip ==
    (sm_last.called /\ ~sm_seen.abs_trip /\ ~sm_seen.run_limit) =>
        /\ sm_last.ret /\ is_safe /\ ~sm_last.raised
        /\ (sm_last.dynamic_safe => consecutive_warnings = 0)

\* One rate violation, then a compliant sample: the counter is back at 0.
C4_Witness ==
    /\ sm_last.called /\ ~sm_seen.abs_trip /\ ~sm_seen.run_limit
    /\ sm_last.run_before = 1 /\ sm_last.dynamic_safe
    /\ consecutive_warnings = 0 /\ is_safe /\ sm_last.ret

\* C5 as stated: on a call whose sample is not later than the reference
\* sample of the rate check, check raises nothing, consecutive_warnings
\* becomes 0, and the verdict is that of the absolute check and the latch.
C5_ZeroDtResetsCounter ==
    [][ (Len(history') > MinHistory /\ RateCheckDt(history') <= 0)
            => /\ ~sm_last'.raised
               /\ consecutive_warnings' = 0
               /\ sm_last'.ret = (is_safe /\ WithinAbsolute(Last(history')))
      ]_vars

\* C5 as amended: consecutive_warnings becomes 0 when the sample passes the
\* absolute check and is left as it was when the sample trips it.
C5_ZeroDtPassesRateCheck ==
    [][ (Len(history') > MinHistory /\ RateCheckDt(history') <= 0)
            => /\ ~sm_last'.raised
               /\ WithinAbsolute(Last(history')) => consecutive_warnings' = 0
               /\ ~WithinAbsolute(Last(history'))
                     => consecutive_warnings' = consecutive_warnings
               /\ sm_last'.ret = (is_safe /\ WithinAbsolute(Last(history')))
      ]_vars

\* A sample with an earlier timestamp than its reference, far from it in
\* voltage, came after a rate violation and reset the counter.
C5_Witness ==
    /\ Len(history) > MinHistory /\ RateCheckDt(history) < 0
    /\ abs(LastSample[1] - history[Len(history) - 4][1]) > max_voltage_rate
    /\ sm_last.called /\ sm_last.run_before > 0
    /\ sm_last.basic_safe /\ consecutive_warnings = 0 /\ sm_last.ret

(***************************************************************************)
(* Properties of PIDController                                             *)
(***************************************************************************)
InLimits(x, limits) == RLe(limits[1], x) /\ RLe(x, limits[2])

\* An update call was the last call, and it returned a value.
Returned == pid_last.op = "update" /\ ~pid_last.raised

\* The errors of the update calls since construction or the last reset are
\* all the same.
ConstantError ==
    \A i \in 1..Len(error_history) : error_history[i] = Last(error_history)

\* C6: with output_limits = (lo, hi), lo <= hi, every value update returns,
\* the value it stores in last_output and every entry of output_history lie
\* in [lo, hi], after any sequence of calls.
C6_OutputWithinLimits ==
    (output_limits /= None /\ RLe(output_limits[1], output_limits[2])) =>
        /\ Returned => InLimits(pid_last.ret, output_limits)
        /\ pid_calls.update > 0 => InLimits(last_output, output_limits)
        /\ \A i \in 1..Len(output_history) :
               InLimits(output_history[i], output_limits)

\* An output below lo was returned as lo, after one above hi returned as hi.
C6_Witness ==
    /\ output_limits /= None /\ Returned
    /\ RLt(pid_last.raw, output_limits[1]) /\ pid_last.ret = output_limits[1]
    /\ last_output = output_limits[1]
    /\ \E i \in 1..Len(output_history) : output_history[i] = output_limits[2]

\* The integral at which a saturated controller with constant error e settles:
\* the fixed point of one update call whose output exceeds hi.
WindupFixedPoint(e) ==
    RSub(RMul(RSub(RInt(1), dt), e),
         RDiv(RSub(RMul(kp, e), output_limits[2]), ki))

\* C7: with limits set and ki # 0, an update call whose error equals that of
\* the call before and whose raw output exceeds hi returns hi, and moves the
\* integral to (1 - dt) times its former distance from a fixed value: under
\* a sustained constant error the integral does not grow with the number
\* of calls, it approaches that value.
C7_AntiWindupBounded ==
    [][ ( /\ pid_last'.op = "update" /\ ~pid_last'.raised
          /\ pid_last.op = "update"
          /\ output_limits /= None /\ ki /= RZero
          /\ prev_error' = prev_error
          /\ RLt(output_limits[2], pid_last'.raw) )
        => /\ pid_last'.ret = output_limits[2]
           /\ RSub(integral', WindupFixedPoint(prev_error))
                 = RMul(RSub(RInt(1), dt),
                        RSub(integral, WindupFixedPoint(prev_error)))
           /\ RLe(RAbs(RSub(integral', WindupFixedPoint(prev_error))),
                  RAbs(RSub(integral, WindupFixedPoint(prev_error))))
      ]_vars

\* Three calls with the same error, the last two saturated at hi, and the
\* integral still on its way to the fixed value.
C7_Witness ==
    /\ Returned /\ output_limits /= None /\ ki /= RZero
    /\ Len(error_history) >= 3 /\ ConstantError
    /\ RLt(output_limits[2], pid_last.raw)
    /\ output_history[Len(output_history) - 1] = output_limits[2]
    /\ integral /= WindupFixedPoint(prev_error)
    /\ integral /= RZero

\* C8 as stated: with ki = 0 and kd = 0 every update(x) returns exactly
\* kp * (setpoint - x).
C8_ProportionalOnly ==
    (pid_last.op = "update" /\ ki = RZero /\ kd = RZero) =>
        /\ ~pid_last.raised
        /\ pid_last.ret = RMul(kp, RSub(setpoint, pid_last.arg))

\* C8 as amended: with ki = 0 and kd = 0 every update(x) returns
\* kp * (setpoint - x) when no limits are set or that value lies within them,
\* and the limit it exceeds otherwise, whatever calls came before.
C8_ProportionalOnlyClamped ==
    (pid_last.op = "update" /\ ki = RZero /\ kd = RZero) =>
        LET p == RMul(kp, RSub(setpoint, pid_last.arg))
        IN  /\ ~pid_last.raised
            /\ pid_last.ret =
                  IF output_limits = None THEN p
                  ELSE IF RLt(output_limits[2], p) THEN output_limits[2]
                  ELSE IF RLt(p, output_limits[1]) THEN output_limits[1]
                  ELSE p

\* A second update with another error than the first returned kp * error.
C8_Witness ==
    /\ Returned /\ ki = RZero /\ kd = RZero /\ kp /= RZero
    /\ output_limits = None
    /\ Len(error_history) >= 2
    /\ error_history[Len(error_history) - 1] /= Last(error_history)
    /\ pid_last.ret = RMul(kp, Last(error_history)) /\ pid_last.ret /= RZero

\* C9: with no output limits the integral is the sum of error * dt over the
\* update calls since construction or the last reset; with kp = kd = 0 and
\* the same error e in each of these N calls, the N-th returns
\* ki * e * dt * N.
C9_IntegralAccumulates ==
    output_limits = None =>
        /\ integral = RMul(dt, RSum(error_history))
        /\ (Returned /\ kp = RZero /\ kd = RZero /\ ConstantError) =>
               pid_last.ret =
                   RMul(RMul(RMul(ki, Last(error_history)), dt),
                        RInt(Len(error_history)))

\* The third of three calls with the same error returned ki * e * dt * 3.
C9_Witness ==
    /\ output_limits = None /\ Returned
    /\ kp = RZero /\ kd = RZero /\ ki /= RZero
    /\ Len(error_history) = 3 /\ ConstantError
    /\ Last(error_history) /= RZero
    /\ pid_last.ret = RMul(RMul(RMul(ki, Last(error_history)), dt), RInt(3))

\* C10: update(x) right after reset() returns what update(x) returns on a
\* newly constructed controller with the same gains, setpoint, dt and limits.
C10_ResetThenUpdateAsNew ==
    [][ (pid_last.op = "reset" /\ pid_last'.op = "update") =>
            LET fresh == PID_update(PID_init(kp, ki, kd, setpoint, dt,
                                             output_limits), pid_last'.arg)
            IN  /\ pid_last'.raised = fresh.raised
                /\ pid_last'.ret = fresh.ret
      ]_vars

\* An update made after a reset that followed earlier updates; all three
\* terms contribute.
C10_Witness ==
    /\ Returned /\ pid_calls.update >= 2 /\ Len(error_history) = 1
    /\ kp /= RZero /\ ki /= RZero /\ kd /= RZero
    /\ pid_last.ret /= RZero

\* What update computes before clamping, from the fields as they are and
\* the error e: kp * e + ki * (integral + e * dt) + kd * (e - prev_error) / dt.
RawOutput(e) ==
    RAdd(RAdd(RMul(kp, e), RMul(ki, RAdd(integral, RMul(e, dt)))),
         RMul(kd, RDiv(RSub(e, prev_error), dt)))

\* C11: reset() sets integral and prev_error to 0 and empties error_history
\* and output_history, and leaves kp, ki, kd, setpoint, dt and output_limits
\* as they were before the call.
C11_ResetFrame ==
    [][ pid_last'.op = "reset"
            => /\ integral' = RZero /\ prev_error' = RZero
               /\ error_history' = <<>> /\ output_history' = <<>>
               /\ kp' = kp /\ ki' = ki /\ kd' = kd
               /\ setpoint' = setpoint /\ dt' = dt
               /\ output_limits' = output_limits
      ]_vars

\* A reset after an update with a nonzero output, on a controller whose
\* setpoint had been changed: the state is cleared, the setpoint kept.
C11_Witness ==
    /\ pid_last.op = "reset" /\ pid_calls.update >= 1
    /\ last_output /= RZero /\ setpoint = RInt(1)
    /\ integral = RZero /\ prev_error = RZero
    /\ error_history = <<>> /\ output_history = <<>>

\* C12: set_setpoint(v) changes only the setpoint (integral, prev_error, the
\* gains, last_output and both histories are as before the call), and the
\* update call after it computes its error as v - measured_value and its
\* output from the integral and prev_error the call left in place.
C12_SetpointOnly ==
    [][ /\ pid_last'.op = "set_setpoint"
            => /\ setpoint' \in Setpoints
               /\ integral' = integral /\ prev_error' = prev_error
               /\ kp' = kp /\ ki' = ki /\ kd' = kd
               /\ dt' = dt /\ output_limits' = output_limits
               /\ last_output' = last_output
               /\ error_history' = error_history
               /\ output_history' = output_history
        /\ (pid_last.op = "set_setpoint" /\ pid_last'.op = "update")
            => /\ ~pid_last'.raised
               /\ Last(error_history') = RSub(setpoint, pid_last'.arg)
               /\ pid_last'.raw = RawOutput(RSub(setpoint, pid_last'.arg))
      ]_vars

\* The setpoint went from 0 to 1 between two updates: the error before was
\* taken against 0, the one after against 1, with integral and derivative
\* terms carried over.
C12_Witness ==
    /\ Returned /\ setpoint = RInt(1) /\ Len(error_history) >= 2
    /\ ki /= RZero /\ kd /= RZero
    /\ Last(error_history) = RSub(RInt(1), pid_last.arg)
    /\ \E x \in Measured :
           error_history[Len(error_history) - 1] = RSub(RInt(0), x)
    /\ \A x \in Measured :
           error_history[Len(error_history) - 1] /= RSub(RInt(1), x)
    /\ integral /= RMul(dt, Last(error_history))

\* C13: set_tunings(kp, ki, kd) replaces the gains whose argument is
\* supplied, 0 included, and leaves every omitted gain, the setpoint,
\* integral, prev_error and both histories as they were; the update call
\* after it computes its output with the new gains.
C13_TuningsSupplied ==
    [][ /\ pid_last'.op = "set_tunings"
            => LET t == pid_last'.tunings
               IN  /\ kp' = IF t[1] /= None THEN t[1] ELSE kp
                   /\ ki' = IF t[2] /= None THEN t[2] ELSE ki
                   /\ kd' = IF t[3] /= None THEN t[3] ELSE kd
                   /\ setpoint' = setpoint /\ dt' = dt
                   /\ output_limits' = output_limits
                   /\ integral' = integral /\ prev_error' = prev_error
                   /\ error_history' = error_history
                   /\ output_history' = output_history
        /\ (pid_last.op = "set_tunings" /\ pid_last'.op = "update")
            => /\ ~pid_last'.raised
               /\ pid_last'.raw = RawOutput(RSub(setpoint, pid_last'.arg))
      ]_vars

\* set_tunings(0, None, None) on a controller built with gains (1, 1, 1):
\* kp became 0, ki and kd were kept.
C13_Witness ==
    /\ pid_last.op = "set_tunings"
    /\ pid_last.tunings = <<RInt(0), None, None>>
    /\ kp = RInt(0) /\ ki = RInt(1) /\ kd = RInt(1)
    /\ integral /= RZero

\* C14: no PIDController with dt <= 0 comes to exist, so that every update
\* call is made on a controller with dt > 0 and none fails with a division
\* by zero.
C14_InvalidTimeStepRejected ==
    pid_last.op = "update" => (RLt(RZero, dt) /\ ~pid_last.raised)

(***************************************************************************)
(* Properties of SafetyMonitor: window, reference sample and counter       *)
(***************************************************************************)
\* The rate of change from sample ref to sample now exceeds a limit:
\* now is later than ref and |v_now - v_ref| / dt > max_voltage_rate or
\* |f_now - f_ref| / dt > max_force_rate, dt their difference in time.
RateFails(now, ref) ==
    /\ now[3] - ref[3] > 0
    /\ \/ abs(now[1] - ref[1]) > max_voltage_rate * (now[3] - ref[3])
       \/ abs(now[2] - ref[2]) > max_force_rate * (now[3] - ref[3])

\* history after one more sample
Appended(hist, sample) ==
    IF Len(hist) < HistoryLength THEN Append(hist, sample)
    ELSE Append(Tail(hist), sample)

\* C15: a monitor configured with window size w and limit m checks the rate
\* on the calls where history holds more than w samples, and is latched
\* unsafe once m calls in a row have failed the rate check.
C15_ConfiguredWindowAndLimit ==
    sm_last.called =>
        /\ sm_last.basic_safe
              => (sm_last.rate_checked <=> Len(history) > sm_config.window_size)
        /\ sm_run >= sm_config.max_consecutive_warnings => ~is_safe

\* C16: a check call whose sample fails the absolute check leaves
\* consecutive_warnings as it was, does not come to the rate check, and
\* appends its sample to history.
C16_AbsoluteTripFrame ==
    [][ (sm_last'.called /\ ~WithinAbsolute(sm_last'.sample))
            => /\ consecutive_warnings' = consecutive_warnings
               /\ ~sm_last'.rate_checked /\ sm_last'.dynamic_safe
               /\ history' = Appended(history, sm_last'.sample)
      ]_vars

\* A sample beyond the force limit came after two rate violations, with more
\* than five samples held: the counter is still 2 and the sample is the
\* newest of history.
C16_Witness ==
    /\ sm_last.called /\ abs(sm_last.sample[2]) > max_force
    /\ sm_last.run_before = 2 /\ consecutive_warnings = 2
    /\ Len(history) > MinHistory /\ Last(history) = sm_last.sample
    /\ ~sm_last.rate_checked

\* C17: the reference sample of a rate check is the sample appended exactly
\* window_size check calls before the current one; after window_size + 1
\* samples the newest is compared against the first.
C17_ReferenceWindowSizeBack ==
    (sm_last.rate_checked /\ ~sm_last.raised /\ Len(history) > window_size) =>
        sm_last.dynamic_safe
            = ~RateFails(Last(history), history[Len(history) - window_size])

\* C18: the rate check is made only on calls where history, the new sample
\* included, holds more than window_size samples; on a call where it holds
\* window_size or fewer the rate check counts as passed, and check returns
\* True when the sample is within the absolute limits and the monitor was
\* not latched.
C18_RateCheckNeedsHistory ==
    [][ /\ sm_last'.rate_checked => Len(history') > window_size
        /\ (sm_last'.called /\ Len(history') <= window_size)
              => /\ ~sm_last'.rate_checked /\ sm_last'.dynamic_safe
                 /\ ~sm_last'.raised
                 /\ (WithinAbsolute(sm_last'.sample) /\ is_safe)
                       => (sm_last'.ret /\ is_safe'
                           /\ consecutive_warnings' = 0)
      ]_vars

\* The fifth call brought a voltage at the limit one second after four zero
\* samples, and returned True with the counter at 0.
C18_Witness ==
    /\ sm_last.called /\ Len(history) = window_size
    /\ history[1] = <<0, 0, 0>> /\ sm_last.sample = <<10, 0, 1>>
    /\ RateFails(Last(history), history[1])
    /\ sm_last.ret /\ is_safe /\ consecutive_warnings = 0
    /\ ~sm_last.rate_checked

\* C19: on a check call whose sample passes the absolute check,
\* consecutive_warnings becomes its former value + 1 if the rate check fails
\* and 0 otherwise; so consecutive_warnings is the number of rate-check
\* failures the most recent calls that passed the absolute check made in a
\* row.
C19_CounterCountsRateFailures ==
    [][ /\ (sm_last'.called /\ WithinAbsolute(sm_last'.sample)
               /\ ~sm_last'.raised)
              => consecutive_warnings' =
                    IF sm_last'.dynamic_safe THEN 0
                    ELSE consecutive_warnings + 1
        /\ consecutive_warnings' = sm_fails'
        /\ ~sm_seen'.abs_trip
              => sm_run' = Min(consecutive_warnings', max_consecutive_warnings)
      ]_vars

\* Two rate failures with an absolute failure between them: the counter
\* is 2.
C19_Witness ==
    /\ sm_last.called /\ sm_last.basic_safe /\ ~sm_last.dynamic_safe
    /\ sm_seen.abs_trip /\ sm_last.run_before = 0
    /\ consecutive_warnings = 2 /\ sm_fails = 2

\* C20: a rate check fails exactly when the current sample is later than the
\* reference sample, history[-5], and the voltage or the force has changed
\* by more per second than its rate limit, time and values taken against
\* that one sample; a rate equal to its limit passes.
C20_RateFailsExactly ==
    (sm_last.rate_checked /\ sm_last.basic_safe) =>
        /\ ~sm_last.raised
        /\ sm_last.dynamic_safe
              = ~RateFails(Last(history), history[Len(history) - window_size + 1])

\* A voltage and a force each exactly one rate limit away from the
\* reference after one second passed the rate check.
C20_Witness ==
    /\ sm_last.rate_checked /\ sm_last.basic_safe /\ sm_last.dynamic_safe
    /\ Last(history) = <<1, 1, 1>>
    /\ history[Len(history) - window_size + 1] = <<0, 0, 0>>

\* C21: every check call, tripping or not, appends exactly its sample to
\* history; history never holds more than history_length samples, and when
\* it is full the oldest sample leaves and the others keep their order, so
\* that history is the most recent samples in arrival order.
C21_HistoryIsRecentSamples ==
    [][ sm_last'.called
            => /\ Len(history') <= HistoryLength
               /\ Last(history') = sm_last'.sample
               /\ Len(history) < HistoryLength
                     => history' = history \o << sm_last'.sample >>
               /\ Len(history) = HistoryLength
                     => history' = SubSeq(history, 2, Len(history))
                                       \o << sm_last'.sample >>
      ]_vars

\* Three rate violations in a row need at least eight calls: history is
\* full, samples have been evicted, and the newest is the last one passed.
C21_Witness ==
    /\ sm_last.called /\ sm_run = max_consecutive_warnings
    /\ Len(history) = HistoryLength
    /\ Last(history) = sm_last.sample

\* C27: is_safe implies consecutive_warnings < max_consecutive_warnings;
\* consecutive_warnings is never negative, and is at or above
\* max_consecutive_warnings only where is_safe is False.
C27_SafeMeansFewWarnings ==
    /\ consecutive_warnings >= 0
    /\ is_safe => consecutive_warnings < max_consecutive_warnings
    /\ consecutive_warnings >= max_consecutive_warnings => ~is_safe

\* A fourth rate violation in a row took the counter beyond the limit on a
\* latched monitor.
C27_Witness ==
    /\ consecutive_warnings > max_consecutive_warnings /\ ~is_safe
    /\ ~sm_seen.abs_trip /\ sm_last.called /\ ~sm_last.dynamic_safe

\* C28: a monitor constructed with history_length <= 5 never holds more than
\* 5 samples and never makes the rate check: consecutive_warnings stays 0
\* and the monitor is unsafe only after a sample failed the absolute check.
C28_ShortHistoryNoRateCheck ==
    history_length <= MinHistory =>
        /\ Len(history) <= MinHistory
        /\ ~sm_last.rate_checked /\ sm_last.dynamic_safe
        /\ consecutive_warnings = 0
        /\ ~is_safe => sm_seen.abs_trip

\* With history_length = 5: a voltage jump to the limit within one second
\* of the oldest sample held, and the monitor is still safe with no warning.
C28_Witness ==
    /\ history_length = MinHistory /\ Len(history) = MinHistory
    /\ sm_last.called /\ sm_last.sample = <<10, 0, 1>>
    /\ RateFails(Last(history), history[1])
    /\ RateFails(history[4], history[1])
    /\ is_safe /\ sm_last.ret /\ consecutive_warnings = 0

(***************************************************************************)
(* Properties of PIDController: the control law and its state              *)
(***************************************************************************)
\* The output of the update call just made was not clamped.
Unclamped(c_limits, raw) == c_limits = None \/ InLimits(raw, c_limits)

\* C22: an update(x) whose output is not clamped returns
\* kp * e + ki * I + kd * (e - prev_error) / dt with e = setpoint - x,
\* I the integral after e * dt was added in this call, and prev_error the
\* error of the update call before (0 when none was made since construction
\* or reset).
C22_ControlLaw ==
    [][ (pid_last'.op = "update" /\ ~pid_last'.raised
            /\ Unclamped(output_limits, pid_last'.raw))
        => LET e == RSub(setpoint, pid_last'.arg)
           IN  /\ integral' = RAdd(integral, RMul(e, dt))
               /\ prev_error = IF error_history = <<>> THEN RZero
                               ELSE Last(error_history)
               /\ pid_last'.ret =
                     RAdd(RAdd(RMul(kp, e), RMul(ki, integral')),
                          RDiv(RMul(kd, RSub(e, prev_error)), dt))
      ]_vars

\* A second update in a row, with dt = 1/2 and all gains at work, another
\* error than the first, within the limits.
C22_Witness ==
    /\ Returned /\ Len(error_history) >= 2
    /\ kp /= RZero /\ ki /= RZero /\ kd /= RZero
    /\ error_history[Len(error_history) - 1] /= Last(error_history)
    /\ Unclamped(output_limits, pid_last.raw) /\ output_limits /= None
    /\ pid_last.ret /= RZero

\* C23: with limits set and a raw output outside them, update takes
\* (raw - clamped) * dt / ki off the integral when ki # 0 and nothing when
\* ki = 0; with the raw output within the limits, or no limits, the integral
\* is the accumulated one.
C23_AntiWindupCorrection ==
    [][ (pid_last'.op = "update" /\ ~pid_last'.raised)
        => LET accumulated == RAdd(integral, RMul(RSub(setpoint, pid_last'.arg), dt))
               excess      == RSub(pid_last'.raw, pid_last'.ret)
           IN  /\ Unclamped(output_limits, pid_last'.raw)
                     => (integral' = accumulated /\ excess = RZero)
               /\ (~Unclamped(output_limits, pid_last'.raw) /\ ki /= RZero)
                     => integral' = RSub(accumulated, RDiv(RMul(excess, dt), ki))
               /\ (~Unclamped(output_limits, pid_last'.raw) /\ ki = RZero)
                     => integral' = accumulated
      ]_vars

\* A raw output below lo with ki # 0 and dt = 1/2: the integral is no longer
\* the plain sum of error * dt.
C23_Witness ==
    /\ Returned /\ output_limits /= None /\ ki /= RZero /\ dt = Rat(1, 2)
    /\ RLt(pid_last.raw, output_limits[1])
    /\ Len(error_history) = pid_calls.update
    /\ integral /= RMul(dt, RSum(error_history))

\* C24: after an update call prev_error is the error setpoint -
\* measured_value of that call; it is 0 before the first update call and
\* right after reset; set_setpoint and set_tunings leave it as it is.
C24_PrevErrorIsLastError ==
    [][ /\ (pid_last'.op = "update" /\ ~pid_last'.raised)
              => prev_error' = RSub(setpoint, pid_last'.arg)
        /\ pid_last'.op = "reset" => prev_error' = RZero
        /\ pid_last'.op \in {"set_setpoint", "set_tunings"}
              => prev_error' = prev_error
        /\ pid_calls.update = 0 => prev_error = RZero
      ]_vars

\* set_tunings on a controller whose last update left a nonzero error.
C24_Witness ==
    /\ pid_last.op = "set_tunings" /\ pid_calls.update >= 1
    /\ error_history /= <<>> /\ prev_error = Last(error_history)
    /\ prev_error /= RZero

\* The most recent max_history entries of a history
Recent(hist) ==
    IF Len(hist) > max_history
    THEN SubSeq(hist, Len(hist) - max_history + 1, Len(hist))
    ELSE hist

\* C25: error_history and output_history hold at most max_history entries,
\* the most recent ones in call order; they have the same length after an
\* update call, and update returns the same value whatever they hold.
C25_BoundedHistories ==
    [][ (pid_last'.op = "update" /\ ~pid_last'.raised)
        => /\ Len(error_history') <= max_history
           /\ Len(output_history') <= max_history
           /\ Len(error_history') = Len(output_history')
           /\ error_history' =
                 Recent(error_history \o << RSub(setpoint, pid_last'.arg) >>)
           /\ output_history' = Recent(output_history \o << pid_last'.ret >>)
           /\ pid_last'.ret =
                 PID_update([pid EXCEPT !.error_history = <<>>,
                                        !.output_history = <<>>],
                            pid_last'.arg).ret
      ]_vars

\* More than max_history updates in a row: both histories are full, and the
\* oldest output still held is not the first one returned.
C25_Witness ==
    /\ Returned /\ pid_calls.update > max_history
    /\ Len(error_history) = max_history /\ Len(output_history) = max_history
    /\ Last(output_history) = pid_last.ret
    /\ output_history[1] /= output_history[2]
    /\ integral = RMul(RInt(-1), RInt(pid_calls.update))

(***************************************************************************)
(* Properties of PhidgetsForceSensor                                       *)
(***************************************************************************)
\* A thread is inside its with block.
InCallback == sensor.cb_pc \in {"locked", "stored"}
InGetForce == sensor.rd_pc \in {"locked", "read"}

\* C26: the callback's write of current_force and get_force's read of it
\* never happen together: each is made by the one thread that holds the
\* lock; get_force returns 0, the initial value, or a force written by a
\* callback that has returned; and the lock is free whenever neither thread
\* is inside its with block.
C26_ForceUnderLock ==
    /\ ~(InCallback /\ InGetForce)
    /\ InCallback <=> sensor.lock = "callback"
    /\ InGetForce <=> sensor.lock = "control"
    /\ sensor.rd_ret \in {0} \cup sensor.written
    /\ sensor.current_force \in {0} \cup sensor.written
          \cup (IF sensor.cb_pc = "stored" THEN {force_of(sensor.cb_ratio)} ELSE {})

\* get_force has returned the force of the second of two callbacks, and a
\* third callback is waiting to store while the lock is its own.
C26_Witness ==
    /\ sensor.rd_calls = 1 /\ sensor.rd_pc = "idle"
    /\ Cardinality(sensor.written) = 2
    /\ sensor.rd_ret = sensor.current_force /\ sensor.rd_ret /= 0
    /\ sensor.cb_pc = "locked" /\ sensor.lock = "callback"

(***************************************************************************)
(* Properties of dynamic_force_control and _phase_loop                     *)
(***************************************************************************)
\* C29: every force passed to linmot.set_force inside the loop lies in
\* [0, 100] N, whatever force was entered and whatever the voltages, and
\* differs from the force commanded before it by at most 0.5 N.
C29_LoopForceBounded ==
    force_control.in_loop =>
        /\ ForceFloor <= force_control.commanded
        /\ force_control.commanded <= ForceCeiling
        /\ abs(force_control.commanded - force_control.previous) <= ForceStep

\* C30: _phase_loop returns on the first sample it processes that is at the
\* cutoff (voltage >= vcut when charging, <= vcut when discharging):
\* stop_channel is called once, then, and that sample's row is the last one
\* written; it returns without a stop_channel call only when the status is
\* STOP after all samples were processed, and it does not return otherwise.
C30_ReturnsAtCutoffOrStop ==
    LET w == phase_loop.written
        AtCutoff(v) ==
            IF phase_loop.phase = "Charge" THEN v >= phase_loop.vcut
            ELSE v <= phase_loop.vcut
        cut == w /= <<>> /\ AtCutoff(Last(w))
    IN  /\ \A i \in 1..(Len(w) - 1) : ~AtCutoff(w[i])
        /\ phase_loop.stops = (IF cut THEN 1 ELSE 0)
        /\ cut => phase_loop.pc = "returned"
        /\ (phase_loop.pc = "returned" /\ ~cut)
              => (phase_loop.status = "STOP" /\ phase_loop.samples = <<>>)

\* A discharge phase ended on its second answer by a sample exactly at the
\* cutoff: stop_channel was called once and the sample after it in the same
\* answer was not written.
C30_Witness ==
    /\ phase_loop.pc = "returned" /\ phase_loop.stops = 1
    /\ phase_loop.phase = "Discharge" /\ phase_loop.polls = 2
    /\ Len(phase_loop.written) >= 2
    /\ Last(phase_loop.written) = phase_loop.vcut
    /\ phase_loop.samples /= <<>>

====
